---- MODULE Spec2Model ----
(***************************************************************************)
(* Model of backend/server.js of snap-search: the upload, regenerate,      *)
(* update and delete handlers over the record store (mongoose ImageModel), *)
(* the images directory, the temp directory and the pending asynchronous   *)
(* fs.unlink calls.                                                        *)
(*                                                                         *)
(* Node runs one handler continuation at a time; a handler gives up        *)
(* control at every await.  Each action below is the completion of one     *)
(* awaited operation (its effect on the store or on disk) together with    *)
(* the synchronous code that follows it, up to the next await.  The first  *)
(* action of a handler also contains the arrival of the request.           *)
(* An awaited call of the store or of the OCR engine may throw at any time *)
(* (the choice of ok in the actions); sharp throws when it cannot read its *)
(* source.                                                                 *)
(***************************************************************************)
EXTENDS Integers, Sequences, FiniteSets, TLC

\* ---------------------------------------------------------------- bounds
NumSlots == 2        \* requests in flight at the same time
MaxRequests == 3     \* requests over a whole behaviour
MaxBatch == 2        \* files in one POST /image of the model
MaxClock == 1        \* last value of Date.now() (clock starts at 0)
MaxFiles == 2        \* files uploaded over a whole behaviour

Slots == 1..NumSlots

\* ------------------------------------------------------------------ text
\* A text is a sequence of characters.
Chars == {" ", "a", "b", "A"}

\* characters of a search parameter that are not characters of a text
QueryChars == Chars \cup {".", "("}

\* the value of a request parameter that is not given
Undefined == <<"undefined">>

\* a string (or undefined) used as a condition
Truthy(v) == v # Undefined /\ v # <<>>

IsSpace(c) == c = " "

RECURSIVE TrimStart(_)
TrimStart(s) ==
    IF s = <<>> THEN s
    ELSE IF IsSpace(Head(s)) THEN TrimStart(Tail(s)) ELSE s

RECURSIVE TrimEnd(_)
TrimEnd(s) ==
    IF s = <<>> THEN s
    ELSE IF IsSpace(s[Len(s)]) THEN TrimEnd(SubSeq(s, 1, Len(s) - 1)) ELSE s

\* String.prototype.trim
Trim(s) == TrimEnd(TrimStart(s))

\* ---------------------------------------------------------------- images
\* What an uploaded file holds: "corrupt" cannot be decoded by sharp,
\* "blank" is an image without text, "label" is an image with text.
Contents == {"corrupt", "blank", "label"}

\* sharp can read the file
Decodable(c) == c # "corrupt"

\* What tesseract.recognize prints for an image derived from content c
EngineOutput(c) ==
    IF c = "label" THEN <<" ", "a", " ">>
    ELSE <<" ">>

\* texts a client submits to PATCH /image/:id
PatchTexts == {Undefined, <<>>, <<" ">>, <<"b", " ">>}

VARIABLES
    db,            \* the image collection: _id -> [image, text, createdAt]
    images,        \* the images directory: filename -> content
    temp,          \* the temp directory: path -> content of the artifact
    unlinkQ,       \* fs.unlink calls issued and not yet carried out:
                   \* <<directory, name, slot of the request that called>>
    now,           \* Date.now()
    uniqueSuffix,  \* number of filenames multer has given out
    nextId,        \* number of _id values the store has given out
    started,       \* number of requests received
    req,           \* per slot: the request in flight or its response
    call           \* a call of preprocessImage or performOCR looked at alone

vars == <<db, images, temp, unlinkQ, now, uniqueSuffix, nextId, started, req, call>>

NoDoc == [image |-> 0, text |-> <<>>, createdAt |-> 0]

Idle == [kind |-> "none", pc |-> "idle", files |-> <<>>, i |-> 0,
         results |-> <<>>, id |-> 0, doc |-> NoDoc, outputPath |-> 0,
         cleanText |-> <<>>, text |-> <<>>, search |-> Undefined,
         status |-> 0, details |-> ""]

\* no call is looked at alone
NoCall == [fn |-> "none", pc |-> "idle", width |-> 0, resized |-> FALSE,
           outWidth |-> 0, engineOk |-> TRUE, engineOut |-> <<>>,
           engineMsg |-> "", invocations |-> 0, ok |-> TRUE, text |-> <<>>,
           message |-> <<>>]

Init ==
    /\ db = <<>>
    /\ images = <<>>
    /\ temp = <<>>
    /\ unlinkQ = {}
    /\ now = 0
    /\ uniqueSuffix = 0
    /\ nextId = 0
    /\ started = 0
    /\ req = [r \in Slots |-> Idle]
    /\ call = NoCall

\* a slot can take a new request; a request takes the first free slot
Vacant(r) == req[r].pc \in {"idle", "done"}
Free(r) ==
    /\ started < MaxRequests
    /\ Vacant(r)
    /\ \A s \in Slots : s < r => ~Vacant(s)

\* res.status(s).json(...): the request is answered
Respond(q, s) == [q EXCEPT !.pc = "done", !.status = s]

\* error.message of what an awaited call throws
StoreFailure == "store failure"
DocumentNotFound == "DocumentNotFoundError"
ValidationFailed == "ValidationError"
SharpFailure == "sharp: input cannot be read"
OcrFailure == "OCR processing failed"
UnlinkFailure == "ENOENT: no such file or directory, unlink"
RegexInvalid == "Regular expression is invalid"

\* RespondError without the response: the error is only logged
RespondErrorLogsOnly(q, msg) == [q EXCEPT !.details = msg]

\* the catch of a handler: res.status(500).json({error, details: error.message})
RespondError(q, msg) == [Respond(q, 500) EXCEPT !.details = msg]


\* ----------------------------------------------------------- the store
\* new ImageModel({image, text}).save(): a record under a fresh _id (an
\* ObjectId is never given out twice: nextId counts them);
\* timestamps: true sets createdAt
InsertDoc(d, id, image, text, t) ==
    [x \in DOMAIN d \cup {id} |->
        IF x = id THEN [image |-> image, text |-> text, createdAt |-> t]
        ELSE d[x]]

\* imageSchema: text is a required String, which rejects the empty string
Validates(text) == Len(text) > 0

\* doc.save() of a document loaded by findById: mongoose sends the paths
\* that were modified, and throws DocumentNotFoundError when the record is
\* gone.  loaded is the text findById returned, text the one assigned.
SaveThrows(d, id) == id \notin DOMAIN d

\* SaveExisting that adds the assigned text to the text of the store
SaveExistingMixes(d, id, loaded, text) ==
    IF text = loaded THEN d
    ELSE [d EXCEPT ![id].text = d[id].text \o text]

\* doc.text = cleanText; await doc.save()
SaveExisting(d, id, loaded, text) ==
    IF text = loaded THEN d
    ELSE [d EXCEPT ![id].text = text]

\* UpdateText with upsert: a record is created when there is none
UpdateTextUpsert(d, id, text) ==
    [x \in DOMAIN d \cup {id} |->
        IF x = id
        THEN [image |-> IF id \in DOMAIN d THEN d[id].image ELSE 0, text |-> text,
              createdAt |-> IF id \in DOMAIN d THEN d[id].createdAt ELSE 0]
        ELSE d[x]]

\* UpdateText that replaces the record: the image is kept, createdAt is new
UpdateTextReplaces(d, id, text) ==
    IF id \in DOMAIN d
    THEN [d EXCEPT ![id] = [image |-> d[id].image, text |-> text,
                            createdAt |-> d[id].createdAt + 1]]
    ELSE d

\* findByIdAndUpdate(id, {text}, {new: true})
UpdateText(d, id, text) ==
    IF id \in DOMAIN d THEN [d EXCEPT ![id].text = text] ELSE d

\* DeleteDoc that leaves the record in the store
DeleteDocKeeps(d, id) == d

\* findByIdAndDelete(id)
DeleteDoc(d, id) == [x \in DOMAIN d \ {id} |-> d[x]]

\* what GET /image (no query) reports as count: find({}).limit(100)
ListLimit == 100
GetCount(d) ==
    IF Cardinality(DOMAIN d) < ListLimit THEN Cardinality(DOMAIN d) ELSE ListLimit

\* ------------------------------------------------------------- the disk
WriteFile(dir, name, c) == [x \in DOMAIN dir \cup {name} |-> IF x = name THEN c ELSE dir[x]]
RemoveFile(dir, name) == [x \in DOMAIN dir \ {name} |-> dir[x]]

\* ExistsSync that never reports a missing file
ExistsSyncAlways(name) == TRUE

\* fs.existsSync(imagePath)
ExistsSync(name) == name \in DOMAIN images

\* ------------------------------------------------------ preprocessImage
\* path.join(tempDir, `processed_${Date.now()}.png`): the path is the
\* millisecond it was computed in
OutputPath(t) == t

\* preprocessImage up to its first await: computes outputPath and starts
\* sharp(inputPath).metadata()
StartPreprocess(q) == [q EXCEPT !.pc = "metadata", !.outputPath = OutputPath(now)]

\* the source file of the preprocessing in flight
InputPath(q) == IF q.kind \in {"upload", "ocr"} THEN q.files[q.i] ELSE q.doc.image

\* Readable that holds of every file
ReadableAlways(name) == name \in DOMAIN images

\* sharp can read the source: it exists and is an image
Readable(name) == name \in DOMAIN images /\ Decodable(images[name])

\* ------------------------------------------------------------ POST /image
\* UploadHasText without the length test: every OCR result is saved
UploadHasTextAnyText(cleanText) == TRUE

\* if (cleanText && cleanText.length > 0)
UploadHasText(cleanText) == Len(cleanText) > 0

\* UploadCatch that unlinks the file being processed only
UploadCatchCurrentFile(r, msg) ==
    /\ req' = [req EXCEPT ![r] = RespondError(req[r], msg)]
    /\ unlinkQ' = unlinkQ \cup {<<"images", req[r].files[req[r].i], r>>}

\* the catch of POST /image: unlink every uploaded file, answer 500
UploadCatch(r, msg) ==
    /\ req' = [req EXCEPT ![r] = RespondError(req[r], msg)]
    /\ unlinkQ' = unlinkQ \cup {<<"images", req[r].files[k], r>> : k \in 1..Len(req[r].files)}

\* NextFile that does not move on: the same file is taken again
NextFileAgain(q) ==
    IF q.i < Len(q.files)
    THEN StartPreprocess(q)
    ELSE Respond(q, 200)

\* the end of one iteration of the for loop: the next file, or res.json
NextFile(q) ==
    IF q.i < Len(q.files)
    THEN StartPreprocess([q EXCEPT !.i = q.i + 1])
    ELSE Respond(q, 200)

\* multer stores the files of the batch, then the handler starts.  The
\* stored name holds Date.now() and a random number below 1E9: names are
\* modelled as never given out twice (uniqueSuffix counts them).
UploadStart(r, batch) ==
    /\ Free(r)
    /\ uniqueSuffix + Len(batch) <= MaxFiles
    /\ started' = started + 1
    /\ uniqueSuffix' = uniqueSuffix + Len(batch)
    /\ images' = [x \in DOMAIN images \cup (uniqueSuffix + 1 .. uniqueSuffix + Len(batch)) |->
                    IF x \in DOMAIN images THEN images[x] ELSE batch[x - uniqueSuffix]]
    /\ LET q == [Idle EXCEPT !.kind = "upload",
                             !.files = [k \in 1..Len(batch) |-> uniqueSuffix + k]]
       IN  req' = [req EXCEPT ![r] =
                IF Len(batch) = 0 THEN Respond(q, 400)
                ELSE StartPreprocess([q EXCEPT !.i = 1])]
    /\ UNCHANGED <<db, temp, unlinkQ, now, nextId, call>>

\* await doc.save() of POST /image returns or throws: it throws when the
\* schema rejects the document or when the store fails
UploadSave(r) ==
    /\ req[r].kind = "upload" /\ req[r].pc = "save"
    /\ \E ok \in BOOLEAN :
        IF ok /\ Validates(req[r].cleanText)
        THEN /\ db' = InsertDoc(db, nextId + 1, req[r].files[req[r].i], req[r].cleanText, now)
             /\ nextId' = nextId + 1
             /\ req' = [req EXCEPT ![r] =
                    NextFile([req[r] EXCEPT !.results =
                        Append(@, [image |-> req[r].files[req[r].i],
                                   text |-> req[r].cleanText, saved |-> TRUE])])]
             /\ UNCHANGED unlinkQ
        ELSE /\ UploadCatch(r, IF ok THEN ValidationFailed ELSE StoreFailure)
             /\ UNCHANGED <<db, nextId>>
    /\ UNCHANGED <<images, temp, now, uniqueSuffix, started, call>>


\* RegenCatch that answers as if the regeneration had succeeded
RegenCatchAnswersOk(r, msg) ==
    /\ req' = [req EXCEPT ![r] = [Respond(req[r], 200) EXCEPT !.details = msg]]
    /\ UNCHANGED unlinkQ

\* the catch of POST /image/:id/regenerate, and of GET /ocr: answer 500
RegenCatch(r, msg) ==
    /\ req' = [req EXCEPT ![r] = RespondError(req[r], msg)]
    /\ UNCHANGED unlinkQ

\* an error thrown inside preprocessImage or performOCR reaches the catch of
\* the handler that awaits it
Catch(r, msg) == IF req[r].kind = "upload" THEN UploadCatch(r, msg) ELSE RegenCatch(r, msg)

\* await sharp(inputPath).metadata() returns or throws
Metadata(r) ==
    /\ req[r].pc = "metadata"
    /\ IF Readable(InputPath(req[r]))
       THEN /\ req' = [req EXCEPT ![r].pc = "toFile"]
            /\ UNCHANGED unlinkQ
       ELSE Catch(r, SharpFailure)
    /\ UNCHANGED <<db, images, temp, now, uniqueSuffix, nextId, started, call>>

\* await sharpImage...toFile(outputPath) returns or throws; on return
\* preprocessImage returns outputPath and performOCR calls the engine
ToFile(r) ==
    /\ req[r].pc = "toFile"
    /\ IF Readable(InputPath(req[r]))
       THEN /\ temp' = WriteFile(temp, req[r].outputPath, images[InputPath(req[r])])
            /\ req' = [req EXCEPT ![r].pc = "recognize"]
            /\ UNCHANGED unlinkQ
       ELSE /\ Catch(r, SharpFailure)
            /\ UNCHANGED temp
    /\ UNCHANGED <<db, images, now, uniqueSuffix, nextId, started, call>>

\* performOCR without the trim: what the engine prints, as printed
performOCRUntrimmed(processedPath) == EngineOutput(temp[processedPath])

\* performOCR: text.trim() of what the engine prints for the artifact
performOCR(processedPath) == Trim(EngineOutput(temp[processedPath]))

\* UnlinkTemp that resolves the path in the images directory
UnlinkTempInImages(r, processedPath) == unlinkQ \cup {<<"images", processedPath, r>>}

\* fs.unlink(processedPath, () => { })
UnlinkTemp(r, processedPath) == unlinkQ \cup {<<"temp", processedPath, r>>}

\* await performOCR(processedPath) of POST /image returns or throws, then
\* the temp file is unlinked and the text is saved or the file is skipped
UploadRecognize(r) ==
    /\ req[r].kind = "upload" /\ req[r].pc = "recognize"
    /\ \E ok \in BOOLEAN :
        IF ok /\ req[r].outputPath \in DOMAIN temp
        THEN LET cleanText == performOCR(req[r].outputPath)
                 q == [req[r] EXCEPT !.cleanText = cleanText]
             IN  /\ unlinkQ' = UnlinkTemp(r, req[r].outputPath)
                 /\ req' = [req EXCEPT ![r] =
                        IF UploadHasText(cleanText)
                        THEN [q EXCEPT !.pc = "save"]
                        ELSE NextFile(q)]
        ELSE UploadCatch(r, OcrFailure)
    /\ UNCHANGED <<db, images, temp, now, uniqueSuffix, nextId, started, call>>

\* Unlink whose error reaches the request that called: it is answered 500
UnlinkThrows(e) ==
    /\ e \in unlinkQ
    /\ unlinkQ' = unlinkQ \ {e}
    /\ IF e[1] = "temp"
       THEN temp' = RemoveFile(temp, e[2]) /\ UNCHANGED images
       ELSE images' = RemoveFile(images, e[2]) /\ UNCHANGED temp
    /\ req' = IF e[1] = "temp" /\ e[2] \notin DOMAIN temp
              THEN [req EXCEPT ![e[3]] = RespondError(@, "ENOENT")]
              ELSE req
    /\ UNCHANGED <<db, now, uniqueSuffix, nextId, started, call>>

\* one pending fs.unlink is carried out; its error, if any, is dropped
Unlink(e) ==
    /\ e \in unlinkQ
    /\ unlinkQ' = unlinkQ \ {e}
    /\ IF e[1] = "temp"
       THEN temp' = RemoveFile(temp, e[2]) /\ UNCHANGED images
       ELSE images' = RemoveFile(images, e[2]) /\ UNCHANGED temp
    /\ UNCHANGED <<db, now, uniqueSuffix, nextId, started, req, call>>

\* a millisecond passes
Tick ==
    /\ now < MaxClock
    /\ now' = now + 1
    /\ UNCHANGED <<db, images, temp, unlinkQ, uniqueSuffix, nextId, started, req, call>>


\* ------------------------------------------- POST /image/:id/regenerate
\* RegenHasText without the length test: every OCR result is assigned
RegenHasTextAnyText(cleanText) == TRUE

\* if (cleanText && cleanText.length > 0)
RegenHasText(cleanText) == Len(cleanText) > 0

\* ids a client can name: 0 is an id the store never gave out
ClientIds == 0..nextId

\* await ImageModel.findById(id) returns or throws; then the checks of the
\* record and of its file, and the start of preprocessImage
RegenStart(r, id) ==
    /\ Free(r)
    /\ started' = started + 1
    /\ \E ok \in BOOLEAN :
        LET q == [Idle EXCEPT !.kind = "regenerate", !.id = id] IN
        req' = [req EXCEPT ![r] =
            IF ~ok THEN RespondError(q, StoreFailure)
            ELSE IF id \notin DOMAIN db THEN Respond(q, 404)
            ELSE IF ~ExistsSync(db[id].image) THEN Respond([q EXCEPT !.doc = db[id]], 404)
            ELSE StartPreprocess([q EXCEPT !.doc = db[id]])]
    /\ UNCHANGED <<db, images, temp, unlinkQ, now, uniqueSuffix, nextId, call>>

\* await performOCR(processedPath) of regenerate returns or throws, then
\* the temp file is unlinked and doc.text is assigned, or 400 is answered
RegenRecognize(r) ==
    /\ req[r].kind = "regenerate" /\ req[r].pc = "recognize"
    /\ \E ok \in BOOLEAN :
        IF ok /\ req[r].outputPath \in DOMAIN temp
        THEN LET cleanText == performOCR(req[r].outputPath)
                 q == [req[r] EXCEPT !.cleanText = cleanText]
             IN  /\ unlinkQ' = UnlinkTemp(r, req[r].outputPath)
                 /\ req' = [req EXCEPT ![r] =
                        IF RegenHasText(cleanText)
                        THEN [q EXCEPT !.pc = "save"]
                        ELSE Respond(q, 400)]
        ELSE RegenCatch(r, OcrFailure)
    /\ UNCHANGED <<db, images, temp, now, uniqueSuffix, nextId, started, call>>

\* await doc.save() of regenerate returns or throws
RegenSave(r) ==
    /\ req[r].kind = "regenerate" /\ req[r].pc = "save"
    /\ \E ok \in BOOLEAN :
        IF ok /\ ~SaveThrows(db, req[r].id) /\ Validates(req[r].cleanText)
        THEN /\ db' = SaveExisting(db, req[r].id, req[r].doc.text, req[r].cleanText)
             /\ req' = [req EXCEPT ![r] = Respond(req[r], 200)]
        ELSE /\ req' = [req EXCEPT ![r] = RespondError(req[r],
                    IF ~ok THEN StoreFailure
                    ELSE IF SaveThrows(db, req[r].id) THEN DocumentNotFound
                    ELSE ValidationFailed)]
             /\ UNCHANGED db
    /\ UNCHANGED <<images, temp, unlinkQ, now, uniqueSuffix, nextId, started, call>>

\* ------------------------------------------------------ PATCH /image/:id
\* TextMissing without the trim: only the missing and the empty text
TextMissingUntrimmed(text) == ~Truthy(text)

\* if (!text || text.trim() === '')
TextMissing(text) == ~Truthy(text) \/ Trim(text) = <<>>

\* the whole handler: its one await is findByIdAndUpdate
Patch(r, id, text) ==
    /\ Free(r)
    /\ started' = started + 1
    /\ \E ok \in BOOLEAN :
        LET q == [Idle EXCEPT !.kind = "patch", !.id = id, !.text = text] IN
        IF TextMissing(text)
        THEN /\ req' = [req EXCEPT ![r] = Respond(q, 400)]
             /\ UNCHANGED db
        ELSE IF ~ok
        THEN /\ req' = [req EXCEPT ![r] = RespondError(q, StoreFailure)]
             /\ UNCHANGED db
        ELSE /\ db' = UpdateText(db, id, Trim(text))
             /\ req' = [req EXCEPT ![r] =
                    IF id \in DOMAIN db'
                    THEN Respond([q EXCEPT !.doc = db'[id]], 200)
                    ELSE Respond(q, 404)]
    /\ UNCHANGED <<images, temp, unlinkQ, now, uniqueSuffix, nextId, call>>

\* ----------------------------------------------------- DELETE /image/:id
\* await ImageModel.findById(id) returns or throws; then the file, if
\* existsSync finds it, is removed with unlinkSync (which throws when there
\* is no file) and findByIdAndDelete starts
DeleteStart(r, id) ==
    /\ Free(r)
    /\ started' = started + 1
    /\ \E ok \in BOOLEAN :
        LET q == [Idle EXCEPT !.kind = "delete", !.id = id] IN
        IF ~ok
        THEN /\ req' = [req EXCEPT ![r] = RespondError(q, StoreFailure)]
             /\ UNCHANGED images
        ELSE IF id \notin DOMAIN db
        THEN /\ req' = [req EXCEPT ![r] = Respond(q, 404)]
             /\ UNCHANGED images
        ELSE IF ExistsSync(db[id].image) /\ db[id].image \notin DOMAIN images
        THEN /\ req' = [req EXCEPT ![r] = RespondError([q EXCEPT !.doc = db[id]], UnlinkFailure)]
             /\ UNCHANGED images
        ELSE /\ images' = IF ExistsSync(db[id].image)
                          THEN RemoveFile(images, db[id].image) ELSE images
             /\ req' = [req EXCEPT ![r] = [q EXCEPT !.doc = db[id], !.pc = "findByIdAndDelete"]]
    /\ UNCHANGED <<db, temp, unlinkQ, now, uniqueSuffix, nextId, call>>

\* await ImageModel.findByIdAndDelete(id) returns or throws
DeleteDone(r) ==
    /\ req[r].kind = "delete" /\ req[r].pc = "findByIdAndDelete"
    /\ \E ok \in BOOLEAN :
        IF ok
        THEN /\ db' = DeleteDoc(db, req[r].id)
             /\ req' = [req EXCEPT ![r] = Respond(req[r], 200)]
        ELSE /\ req' = [req EXCEPT ![r] = RespondError(req[r], StoreFailure)]
             /\ UNCHANGED db
    /\ UNCHANGED <<images, temp, unlinkQ, now, uniqueSuffix, nextId, started, call>>

\* ------------------------------------------------------------ GET /image
\* the search parameters a client sends
Searches == {Undefined, <<>>, <<" ">>, <<"A">>, <<".">>, <<"(">>}

\* IsListing without the trim: a whitespace-only parameter is searched for
IsListingUntrimmed(searchQuery) == ~Truthy(searchQuery)

\* if (!searchQuery || searchQuery.trim() === ''): the listing path
IsListing(searchQuery) == ~Truthy(searchQuery) \/ Trim(searchQuery) = <<>>

\* $options: 'i'
Lower(c) == IF c = "A" THEN "a" ELSE c

\* the pattern compiles: a group that is opened is closed (no character
\* of the model closes one)
ValidRegex(p) == \A k \in 1..Len(p) : p[k] # "("

\* one character of the pattern against one character of the text: a dot
\* matches every character, every other character of the model itself
CharMatches(pc, c) == pc = "." \/ Lower(pc) = Lower(c)

\* text: { $regex: searchQuery, $options: 'i' }: the pattern matches
\* somewhere in the text
RegexMatches(p, text) ==
    \E k \in 0..(Len(text) - Len(p)) :
        \A j \in 1..Len(p) : CharMatches(p[j], text[k + j])

\* the records a query of GET /image selects
Find(d, searchQuery) ==
    IF IsListing(searchQuery) THEN DOMAIN d
    ELSE {id \in DOMAIN d : RegexMatches(searchQuery, d[id].text)}

\* .sort({ createdAt: -1 }): x comes before y; the store fixes the order
\* of records of the same createdAt as it likes (up: by ascending _id,
\* else by descending _id)
Precedes(d, x, y, up) ==
    \/ d[x].createdAt > d[y].createdAt
    \/ d[x].createdAt = d[y].createdAt /\ (IF up THEN x < y ELSE x > y)

\* SortLimit with the limit applied before the sort: the first n records of
\* the store, sorted
LimitSort(d, ids, up, n) ==
    LET first == {x \in ids : Cardinality({y \in ids : y < x}) < n}
        placed == {<<x, Cardinality({y \in first : y # x /\ Precedes(d, y, x, up)})>> :
                      x \in first}
    IN  [k \in 1..Cardinality(first) |-> (CHOOSE p \in placed : p[2] = k - 1)[1]]

\* .sort({ createdAt: -1 }).limit(100) of the records ids
\* (a record's place is the number of the records that precede it)
SortLimit(d, ids, up, n) ==
    LET placed == {<<x, Cardinality({y \in ids : y # x /\ Precedes(d, y, x, up)})>> :
                      x \in ids}
        m == IF Cardinality(ids) < n THEN Cardinality(ids) ELSE n
    IN  [k \in 1..m |-> (CHOOSE p \in placed : p[2] = k - 1)[1]]

\* docs.map(doc => ({id, image, text, matched: searchQuery ? true : false, createdAt}))
Result(d, id, searchQuery) ==
    [id |-> id, image |-> d[id].image, text |-> d[id].text,
     matched |-> Truthy(searchQuery), createdAt |-> d[id].createdAt]

\* docs.map(...) over the documents the query returned
Results(d, docs, searchQuery) ==
    [k \in 1..Len(docs) |-> Result(d, docs[k], searchQuery)]

\* the whole handler: its one await is the find
Get(r, searchQuery, up) ==
    /\ Free(r)
    /\ started' = started + 1
    /\ \E ok \in BOOLEAN :
        LET q == [Idle EXCEPT !.kind = "get", !.search = searchQuery]
            docs == SortLimit(db, Find(db, searchQuery), up, ListLimit)
            results == Results(db, docs, searchQuery)
        IN  req' = [req EXCEPT ![r] =
                IF ~ok THEN RespondError(q, StoreFailure)
                ELSE IF ~IsListing(searchQuery) /\ ~ValidRegex(searchQuery)
                THEN RespondError(q, RegexInvalid)
                ELSE Respond([q EXCEPT !.results = results], 200)]
    /\ UNCHANGED <<db, images, temp, unlinkQ, now, uniqueSuffix, nextId, call>>

\* -------------------------------------------------------------- GET /ocr
\* the image parameter: the name of a file of the images directory, or 0,
\* a name (as the default test.png) under which there is no file
ImageNames == 0..uniqueSuffix

\* the q parameter
OcrQueries == {Undefined, <<"A">>, <<"b">>}

\* text.toLowerCase()
ToLowerCase(text) == [k \in 1..Len(text) |-> Lower(text[k])]

\* (req.query.q || '').toLowerCase().trim()
OcrSearchQuery(q) == IF Truthy(q) THEN Trim(ToLowerCase(q)) ELSE <<>>

\* text.includes(q)
Includes(text, q) ==
    \E k \in 0..(Len(text) - Len(q)) : \A j \in 1..Len(q) : text[k + j] = q[j]

\* the handler up to its first await: existsSync, then preprocessImage starts
OcrStart(r, imageName, q) ==
    /\ Free(r)
    /\ started' = started + 1
    /\ LET o == [Idle EXCEPT !.kind = "ocr", !.files = <<imageName>>, !.i = 1,
                             !.search = OcrSearchQuery(q)]
       IN  req' = [req EXCEPT ![r] =
                IF ~ExistsSync(imageName) THEN Respond(o, 404)
                ELSE StartPreprocess(o)]
    /\ UNCHANGED <<db, images, temp, unlinkQ, now, uniqueSuffix, nextId, call>>

\* await performOCR(processedPath) of GET /ocr returns or throws, then the
\* temp file is unlinked and the text is searched and returned
OcrRespond(r) ==
    /\ req[r].kind = "ocr" /\ req[r].pc = "recognize"
    /\ \E ok \in BOOLEAN :
        IF ok /\ req[r].outputPath \in DOMAIN temp
        THEN LET cleanText == performOCR(req[r].outputPath)
                 searchQuery == req[r].search
                 found == IF searchQuery # <<>>
                          THEN IF Includes(ToLowerCase(cleanText), searchQuery)
                               THEN "true" ELSE "false"
                          ELSE "null"
             IN  /\ unlinkQ' = UnlinkTemp(r, req[r].outputPath)
                 /\ req' = [req EXCEPT ![r] =
                        Respond([req[r] EXCEPT !.cleanText = cleanText,
                                    !.results = <<[image |-> req[r].files[1],
                                                   text |-> cleanText,
                                                   found |-> found,
                                                   match |-> IF searchQuery # <<>>
                                                             THEN searchQuery
                                                             ELSE <<"null">>]>>], 200)]
        ELSE RegenCatch(r, OcrFailure)
    /\ UNCHANGED <<db, images, temp, now, uniqueSuffix, nextId, started, call>>

\* ------------------------------------------------------------ the system
\* the batches a client uploads: up to MaxBatch files, all of an image
\* mimetype (multer's fileFilter and its limit of 10 files reject a request
\* before the handler runs)
Batches == UNION {[1..n -> Contents] : n \in 0..MaxBatch}

Next ==
    \/ \E r \in Slots, batch \in Batches : UploadStart(r, batch)
    \/ \E r \in Slots : Metadata(r)
    \/ \E r \in Slots : ToFile(r)
    \/ \E r \in Slots : UploadRecognize(r)
    \/ \E r \in Slots : UploadSave(r)
    \/ \E r \in Slots, id \in ClientIds : RegenStart(r, id)
    \/ \E r \in Slots : RegenRecognize(r)
    \/ \E r \in Slots : RegenSave(r)
    \/ \E r \in Slots, id \in ClientIds, text \in PatchTexts : Patch(r, id, text)
    \/ \E r \in Slots, id \in ClientIds : DeleteStart(r, id)
    \/ \E r \in Slots : DeleteDone(r)
    \/ \E r \in Slots, searchQuery \in Searches, up \in BOOLEAN : Get(r, searchQuery, up)
    \/ \E e \in unlinkQ : Unlink(e)
    \/ Tick

Spec == Init /\ [][Next]_vars

\* ------------------------------------------------- awaited calls settle
\* Every awaited call of a handler (sharp, the engine, the store)
\* eventually returns or throws: the continuation of a pending await is
\* eventually run.  Nothing is assumed of the arrival of requests, of the
\* clock or of the pending fs.unlink calls.
Settles ==
    \A r \in Slots :
        /\ WF_vars(Metadata(r))
        /\ WF_vars(ToFile(r))
        /\ WF_vars(UploadRecognize(r))
        /\ WF_vars(UploadSave(r))
        /\ WF_vars(RegenRecognize(r))
        /\ WF_vars(RegenSave(r))
        /\ WF_vars(DeleteDone(r))

\* the server after its first request has been answered and its temp file
\* removed: an upload that saved one record, or a request that wrote nothing
InitLive ==
    \E n \in 0..1 :
        /\ db = [id \in 1..n |-> [image |-> id, text |-> <<"a">>, createdAt |-> 0]]
        /\ images = [id \in 1..n |-> "label"]
        /\ temp = <<>>
        /\ unlinkQ = {}
        /\ now = 0
        /\ uniqueSuffix = n
        /\ nextId = n
        /\ started = 1
        /\ req = [r \in Slots |-> Idle]
        /\ call = NoCall

SpecLive == InitLive /\ [][Next]_vars /\ Settles

\* ------------------------------------------- GET /image on a large store
\* The store a GET /image reads is drawn from collections of the shape the
\* handlers build: _ids in the order of creation, createdAt not decreasing
\* with the _id, trimmed non-empty texts, every record with its file.
MaxRecords == 102    \* records of the largest collection

\* sizes of the collections: around 0 and around the limit of the listing
Sizes == {n \in 0..MaxRecords : n <= 2 \/ n >= MaxRecords - 3}

\* createdAt of record id: one record a millisecond, all records in one
\* millisecond, two records a millisecond
CreatedAtOf(id, pattern) ==
    IF pattern = 1 THEN id ELSE IF pattern = 2 THEN 0 ELSE id \div 2

\* text of record id: the same text in all records, or two texts in turn
TextOf(id, pattern) ==
    IF pattern = 1 \/ id % 2 = 1 THEN <<"a">> ELSE <<"b">>

Collection(n, cp, tp) ==
    [id \in 1..n |-> [image |-> id, text |-> TextOf(id, tp),
                      createdAt |-> CreatedAtOf(id, cp)]]

\* the server with such a store, one request before the last of the model
InitSearch ==
    \E n \in Sizes, cp \in 1..3, tp \in 1..2 :
        /\ db = Collection(n, cp, tp)
        /\ images = [id \in 1..n |-> "label"]
        /\ temp = <<>>
        /\ unlinkQ = {}
        /\ now = n
        /\ uniqueSuffix = n
        /\ nextId = n
        /\ started = MaxRequests - 1
        /\ req = [r \in Slots |-> Idle]
        /\ call = NoCall

NextSearch ==
    \/ \E r \in Slots, searchQuery \in Searches, up \in BOOLEAN : Get(r, searchQuery, up)
    \/ \E r \in Slots, imageName \in ImageNames, q \in OcrQueries : OcrStart(r, imageName, q)
    \/ \E r \in Slots : Metadata(r)
    \/ \E r \in Slots : ToFile(r)
    \/ \E r \in Slots : OcrRespond(r)
    \/ \E e \in unlinkQ : Unlink(e)

SpecSearch == InitSearch /\ [][NextSearch]_vars

\* ------------------------------- preprocessImage and performOCR, alone
\* One call of preprocessImage or of performOCR, step by step, for every
\* source width and every outcome of the engine; the server is idle.
MaxWidth == 1002     \* largest source width
MaxOut == 3          \* longest text the engine prints

\* metadata.width of the source; NoWidth is a width sharp does not report
\* (undefined, falsy as 0 is)
NoWidth == 0
ResizeBelow == 1000
Widths == {w \in 0..MaxWidth : w <= 2 \/ w >= ResizeBelow - 2}

\* what tesseract.recognize prints, or the message of the error it throws
Texts(n) == UNION {[1..k -> Chars] : k \in 0..n}
EngineMessages == {"spawn tesseract ENOENT", "Error opening data file"}

\* Upscales with the threshold included
UpscalesInclusive(width) == width # NoWidth /\ width <= ResizeBelow

\* if (metadata.width && metadata.width < 1000)
Upscales(width) == width # NoWidth /\ width < ResizeBelow

\* sharpImage.resize({width: metadata.width * 2, kernel: lanczos3})
ResizeWidth(width) == width * 2

\* await sharp(inputPath).metadata() returns; the resize is set up or not and
\* the pipeline is started
PreprocessMetadata ==
    /\ call.fn = "preprocessImage" /\ call.pc = "metadata"
    /\ call' = [call EXCEPT !.pc = "toFile",
                            !.resized = Upscales(call.width),
                            !.outWidth = IF Upscales(call.width)
                                         THEN ResizeWidth(call.width)
                                         ELSE call.width]
    /\ UNCHANGED <<db, images, temp, unlinkQ, now, uniqueSuffix, nextId, started, req>>

\* await sharpImage...toFile(outputPath) returns; return outputPath
PreprocessToFile ==
    /\ call.fn = "preprocessImage" /\ call.pc = "toFile"
    /\ call' = [call EXCEPT !.pc = "done"]
    /\ UNCHANGED <<db, images, temp, unlinkQ, now, uniqueSuffix, nextId, started, req>>

\* OcrCatch that calls the engine a second time before it gives up
OcrCatchRetries(c) ==
    IF c.invocations < 2 THEN [c EXCEPT !.pc = "recognize"]
    ELSE [c EXCEPT !.pc = "done", !.ok = FALSE,
                   !.message = <<OcrFailure, c.engineMsg>>]

\* catch (error) { throw new Error('OCR processing failed: ' + error.message) }
OcrCatch(c) ==
    [c EXCEPT !.pc = "done", !.ok = FALSE, !.message = <<OcrFailure, c.engineMsg>>]

\* OcrReturn that throws when the trimmed text is empty
OcrReturnRejectsEmpty(c) ==
    IF Trim(c.engineOut) = <<>>
    THEN [c EXCEPT !.pc = "done", !.ok = FALSE, !.message = <<OcrFailure, "">>]
    ELSE [c EXCEPT !.pc = "done", !.ok = TRUE, !.text = Trim(c.engineOut)]

\* return text.trim()
OcrReturn(c) == [c EXCEPT !.pc = "done", !.ok = TRUE, !.text = Trim(c.engineOut)]

\* performOCR up to its await: tesseract.recognize(imagePath, tesseractConfig)
\* is called
OcrRecognize ==
    /\ call.fn = "performOCR" /\ call.pc = "recognize"
    /\ call' = [call EXCEPT !.pc = "await", !.invocations = @ + 1]
    /\ UNCHANGED <<db, images, temp, unlinkQ, now, uniqueSuffix, nextId, started, req>>

\* await tesseract.recognize(...) returns or throws
OcrSettle ==
    /\ call.fn = "performOCR" /\ call.pc = "await"
    /\ call' = IF call.engineOk THEN OcrReturn(call) ELSE OcrCatch(call)
    /\ UNCHANGED <<db, images, temp, unlinkQ, now, uniqueSuffix, nextId, started, req>>

\* the calls looked at: preprocessImage of a source of every width,
\* performOCR with every outcome of the engine
Calls ==
    {[NoCall EXCEPT !.fn = "preprocessImage", !.pc = "metadata", !.width = w] :
        w \in Widths}
    \cup {[NoCall EXCEPT !.fn = "performOCR", !.pc = "recognize", !.engineOut = out] :
        out \in Texts(MaxOut)}
    \cup {[NoCall EXCEPT !.fn = "performOCR", !.pc = "recognize", !.engineOk = FALSE,
                         !.engineMsg = msg] : msg \in EngineMessages}

InitCalls ==
    /\ db = <<>>
    /\ images = <<>>
    /\ temp = <<>>
    /\ unlinkQ = {}
    /\ now = 0
    /\ uniqueSuffix = 0
    /\ nextId = 0
    /\ started = 0
    /\ req = [r \in Slots |-> Idle]
    /\ call \in Calls

NextCalls ==
    \/ PreprocessMetadata
    \/ PreprocessToFile
    \/ OcrRecognize
    \/ OcrSettle

SpecCalls == InitCalls /\ [][NextCalls]_vars


\* ================================================================ claims
IsUpload(r) == req[r].kind = "upload"
IsRegen(r) == req[r].kind = "regenerate"
IsDelete(r) == req[r].kind = "delete"
Answered(r, s) == req[r].pc = "done" /\ req[r].status = s

\* C1: in a POST /image batch, a failure of preprocessing or OCR for one
\* file never aborts its siblings: while files remain after the file being
\* preprocessed or recognised, no step of the request ends the batch.
C1_SiblingsNotAborted ==
    [][\A r \in Slots :
        (/\ IsUpload(r)
         /\ req[r].pc \in {"metadata", "toFile", "recognize"}
         /\ req[r].i < Len(req[r].files))
        => req'[r].pc # "done"]_vars

\* C2: POST /image answers 200 for every batch with at least one file,
\* whatever the per-file outcomes, and 400 only for a batch without files.
C2_StatusByBatchSize ==
    \A r \in Slots :
        (IsUpload(r) /\ req[r].pc = "done") =>
            /\ (Len(req[r].files) > 0 => req[r].status = 200)
            /\ (Len(req[r].files) = 0 => req[r].status = 400)

\* C3: the response of a POST /image batch holds an outcome for every file
\* of the batch, a file with empty OCR text included.
C3_EveryFileReported ==
    \A r \in Slots :
        (IsUpload(r) /\ Answered(r, 200)) => Len(req[r].results) = Len(req[r].files)

\* C4: POST /image creates a record only for a file whose trimmed OCR text
\* is non-empty, and that record holds the text; when the OCR text of a file
\* is empty no record is created (the count of GET /image is unchanged), no
\* save is started, and the batch goes on with the next file or answers 200.
C4_RecordOnlyForText ==
    [][\A r \in Slots :
        (IsUpload(r) /\ req'[r] # req[r] /\ req[r].pc \in {"recognize", "save"}) =>
            /\ (db' # db =>
                    /\ req[r].pc = "save"
                    /\ Len(req[r].cleanText) > 0
                    /\ \E id \in DOMAIN db' \ DOMAIN db :
                          db'[id].text = req[r].cleanText)
            /\ (req[r].pc = "recognize" /\ req'[r].status # 500
                  /\ req'[r].cleanText = <<>>) =>
                    /\ db' = db
                    /\ GetCount(db') = GetCount(db)
                    /\ IF req[r].i < Len(req[r].files)
                       THEN req'[r].pc = "metadata" /\ req'[r].i = req[r].i + 1
                       ELSE req'[r].pc = "done" /\ req'[r].status = 200]_vars

\* a batch whose first file had no text was answered 200 with the second
\* file saved, and the store holds that one record only
C4_Witness ==
    \E r \in Slots :
        /\ IsUpload(r) /\ Answered(r, 200)
        /\ Len(req[r].files) = 2 /\ Len(req[r].results) = 1
        /\ req[r].results[1].image = req[r].files[2]
        /\ req[r].files[1] \in DOMAIN images /\ images[req[r].files[1]] = "blank"
        /\ Cardinality(DOMAIN db) = 1

\* C5: once the OCR call of a preprocessed artifact has finished, with a
\* text or with an error, the removal of the artifact has been scheduled.
C5_ArtifactRemovalScheduled ==
    [][\A r \in Slots :
        (req[r].pc = "recognize" /\ req'[r].pc # "recognize")
        => <<"temp", req[r].outputPath, r>> \in unlinkQ']_vars

\* C6: two requests whose artifacts wait for OCR at the same time have
\* different artifact paths.
C6_ArtifactPathsDiffer ==
    \A r1, r2 \in Slots :
        (r1 # r2 /\ req[r1].pc = "recognize" /\ req[r2].pc = "recognize")
        => req[r1].outputPath # req[r2].outputPath


\* C7: when the OCR call of a regeneration returns empty text, the request
\* is answered 400 in that step and no record changes.
C7_EmptyRegenLeavesRecord ==
    [][\A r \in Slots :
        (/\ IsRegen(r) /\ req[r].pc = "recognize" /\ req'[r] # req[r]
         /\ req'[r].status # 500 /\ req'[r].cleanText = <<>>)
        => /\ req'[r].pc = "done" /\ req'[r].status = 400
           /\ db' = db]_vars

\* a regeneration of a stored record was answered 400, and the record
\* still holds the text the request read
C7_Witness ==
    \E r \in Slots :
        /\ IsRegen(r) /\ Answered(r, 400)
        /\ req[r].id \in DOMAIN db
        /\ db[req[r].id] = req[r].doc

\* C8: a successful regeneration updates in place: the record has the new
\* OCR text, no record is created and every other record is unchanged.
C8_RegenUpdatesInPlace ==
    [][\A r \in Slots :
        (IsRegen(r) /\ req[r].pc = "save" /\ req'[r].status = 200) =>
            /\ DOMAIN db' = DOMAIN db
            /\ db'[req[r].id].text = req[r].cleanText
            /\ \A id \in DOMAIN db : id # req[r].id => db'[id] = db[id]]_vars

\* C9: when the file of the record is missing as regenerate reads the
\* record, the request is answered 404 in that step: preprocessing and OCR
\* are not started and no record, file or artifact changes.
C9_MissingAssetIs404 ==
    [][\A r \in Slots :
        (/\ started' = started + 1
         /\ req'[r] # req[r] /\ req'[r].kind = "regenerate"
         /\ req'[r].status # 500
         /\ req'[r].id \in DOMAIN db
         /\ db[req'[r].id].image \notin DOMAIN images)
        => /\ req'[r].pc = "done" /\ req'[r].status = 404
           /\ db' = db /\ images' = images /\ temp' = temp
           /\ unlinkQ' = unlinkQ]_vars

\* a regeneration found its record, not its file, and was answered 404
C9_Witness ==
    \E r \in Slots :
        /\ IsRegen(r) /\ Answered(r, 404)
        /\ req[r].doc # NoDoc
        /\ req[r].id \in DOMAIN db
        /\ req[r].doc.image \notin DOMAIN images

\* C10: once DELETE /image/:id has answered 200, the record is not in the
\* store (GET /image does not list it) and its file is not in the images
\* directory.
C10_DeleteRemovesBoth ==
    \A r \in Slots :
        (IsDelete(r) /\ Answered(r, 200)) =>
            /\ req[r].id \notin DOMAIN db
            /\ req[r].doc.image \notin DOMAIN images

\* a delete of a stored record was answered 200 while another record and
\* its file stay
C10_Witness ==
    \E r \in Slots :
        /\ IsDelete(r) /\ Answered(r, 200)
        /\ req[r].doc # NoDoc
        /\ \E id \in DOMAIN db : db[id].image \in DOMAIN images

\* a step in which slot r takes a new request of the given kinds
Arrives(r, kinds) ==
    Free(r) /\ started' = started + 1 /\ req'[r].kind \in kinds

\* a submitted text that is missing, empty or made of whitespace only
Blank(t) == t = Undefined \/ \A k \in 1..Len(t) : t[k] = " "

\* C11: PATCH /image/:id with a text that is missing or empty after
\* trimming is answered 400 and leaves every record unchanged; with a
\* non-blank text on an existing id (and the store answering) it is
\* answered 200 and the stored text of that record is the trimmed text.
C11_PatchValidation ==
    [][\A r \in Slots :
        Arrives(r, {"patch"}) =>
            LET q == req'[r] IN
            /\ Blank(q.text) =>
                    q.pc = "done" /\ q.status = 400 /\ db' = db
            /\ (~Blank(q.text) /\ q.id \in DOMAIN db /\ q.status # 500) =>
                    /\ q.pc = "done" /\ q.status = 200
                    /\ DOMAIN db' = DOMAIN db
                    /\ db'[q.id].text = Trim(q.text)
                    /\ Head(db'[q.id].text) # " "
                    /\ db'[q.id].text[Len(db'[q.id].text)] # " "
                    /\ \A x \in DOMAIN db \ {q.id} : db'[x] = db[x]]_vars

\* a PATCH with surrounding whitespace was answered 200 and the record holds
\* the trimmed text
C11_Witness ==
    \E r \in Slots :
        /\ req[r].kind = "patch" /\ Answered(r, 200)
        /\ req[r].text # Trim(req[r].text)
        /\ req[r].id \in DOMAIN db
        /\ db[req[r].id].text = Trim(req[r].text)

Contains(text, q) ==
    \E k \in 0..(Len(text) - Len(q)) :
        \A j \in 1..Len(q) : Lower(text[k + j]) = Lower(q[j])

\* the smaller of two numbers
Min(a, b) == IF a < b THEN a ELSE b

\* res holds the most recent (up to the cap) records of d among qual, one
\* result a record
MostRecentOf(d, qual, res) ==
    /\ Len(res) = Min(Cardinality(qual), ListLimit)
    /\ \A k \in 1..Len(res) : res[k].id \in qual /\ res[k].text = d[res[k].id].text
    /\ \A j, k \in 1..Len(res) : j # k => res[j].id # res[k].id
    /\ \A id \in qual \ {res[k].id : k \in 1..Len(res)} :
            \A k \in 1..Len(res) : d[id].createdAt <= d[res[k].id].createdAt

\* C13: for a non-empty (non-blank) query q, GET /image?search=q returns
\* exactly the most recent, up to the cap, records whose text contains q as
\* a literal substring compared case-insensitively; metacharacters of q
\* never act as wildcards and never cause a query error.
C13_LiteralSubstring ==
    [][\A r \in Slots :
        (/\ Arrives(r, {"get"})
         /\ ~Blank(req'[r].search)
         /\ req'[r].details # StoreFailure)
        => /\ req'[r].pc = "done" /\ req'[r].status = 200
           /\ MostRecentOf(db, {id \in DOMAIN db : Contains(db[id].text, req'[r].search)},
                           req'[r].results)]_vars

\* C14: every result of GET /image carries matched = true exactly when the
\* results come from the text-matching path, and matched = false exactly
\* when they come from the listing path (missing, empty or whitespace-only
\* search parameter).
C14_MatchedTellsPath ==
    \A r \in Slots :
        (req[r].kind = "get" /\ Answered(r, 200)) =>
            \A k \in 1..Len(req[r].results) :
                req[r].results[k].matched = ~Blank(req[r].search)

\* C15: GET /image with a missing, empty or whitespace-only search
\* parameter is not an error: the store answering, it responds 200 with the
\* most recent records whatever their text.
C15_BlankSearchListsAll ==
    [][\A r \in Slots :
        (/\ Arrives(r, {"get"})
         /\ Blank(req'[r].search)
         /\ req'[r].details # StoreFailure)
        => /\ req'[r].pc = "done" /\ req'[r].status = 200
           /\ MostRecentOf(db, DOMAIN db, req'[r].results)]_vars

\* a whitespace-only search was answered 200 with records of two texts,
\* none of which contains a space
C15_Witness ==
    \E r \in Slots :
        /\ req[r].kind = "get" /\ Answered(r, 200)
        /\ req[r].search = <<" ">>
        /\ \E j, k \in 1..Len(req[r].results) :
                req[r].results[j].text # req[r].results[k].text

PatchWrites(r, id) ==
    /\ Arrives(r, {"patch"}) /\ req'[r].id = id /\ req'[r].status = 200
    /\ db'[id].text = Trim(req'[r].text)

\* the step is the store write of the regeneration of slot r, on record id
RegenWrites(r, id) ==
    /\ IsRegen(r) /\ req[r].pc = "save" /\ req[r].id = id /\ req'[r].status = 200
    /\ db'[id].text = req[r].cleanText

C18_ImageAndCreatedAtFixed ==
    [][\A id \in DOMAIN db \cap DOMAIN db' :
        /\ db'[id].image = db[id].image
        /\ db'[id].createdAt = db[id].createdAt]_vars

\* a record was given a text by a PATCH and then another by a regeneration,
\* and has the image and the createdAt the regeneration had read
C18_Witness ==
    \E r \in Slots :
        /\ IsRegen(r) /\ Answered(r, 200)
        /\ req[r].id \in DOMAIN db
        /\ req[r].doc.text # req[r].cleanText
        /\ db[req[r].id].text = req[r].cleanText
        /\ db[req[r].id].image = req[r].doc.image
        /\ db[req[r].id].createdAt = req[r].doc.createdAt

\* error.message of the errors a store call throws
StoreErrors == {StoreFailure, DocumentNotFound, ValidationFailed, RegexInvalid}

\* C19: a store write or read error during upload, search, update,
\* regenerate or delete is surfaced as a single 500 response of the
\* request, carrying the underlying error detail: the step in which the
\* error is caught answers 500, and an answered request takes no further
\* step.
C19_StoreErrorIs500 ==
    [][\A r \in Slots :
        /\ (req'[r] # req[r] /\ req'[r].details \in StoreErrors) =>
                /\ req'[r].kind \in {"upload", "get", "patch", "regenerate", "delete"}
                /\ req'[r].pc = "done" /\ req'[r].status = 500
        /\ (req[r].pc = "done" /\ req'[r] # req[r]) => Arrives(r, {req'[r].kind})]_vars

\* the save of an upload and a request of another kind both met a store
\* failure and were answered 500
C19_Witness ==
    \E r1, r2 \in Slots :
        /\ IsUpload(r1) /\ Answered(r1, 500) /\ req[r1].details = StoreFailure
        /\ req[r2].kind \in {"get", "patch", "regenerate", "delete"}
        /\ Answered(r2, 500) /\ req[r2].details = StoreFailure

\* C20: regeneration is idempotent on stable input: with the deterministic
\* engine and the file of the record unchanged, every regeneration that ends
\* without a thrown error is answered 200 with the same non-empty text, the
\* engine's text of the file, and a regeneration of a record that already
\* holds that text leaves the store as it is.
C20_RegenIdempotent ==
    [][\A r \in Slots :
        (/\ IsRegen(r) /\ req[r].pc \in {"recognize", "save"}
         /\ req'[r].pc = "done" /\ req'[r].status # 500
         /\ req[r].doc.image \in DOMAIN images)
        => LET t == Trim(EngineOutput(images[req[r].doc.image])) IN
           /\ t # <<>>
           /\ req'[r].status = 200 /\ req'[r].cleanText = t
           /\ (req[r].id \in DOMAIN db /\ db[req[r].id].text = t) => db' = db]_vars

\* slot r holds a request in progress and the step is a step of it
StepOf(r, kinds) ==
    /\ req[r].kind \in kinds /\ req[r].pc \notin {"idle", "done"}
    /\ req'[r] # req[r]

\* the place of file f in the batch
IndexOf(files, f) == CHOOSE k \in 1..Len(files) : files[k] = f

\* C21: within one POST /image batch the files are processed one after the
\* other in upload order: the preprocessing of a file starts only in the step
\* in which the file before it is saved or skipped, and the entries of
\* results are in upload order.
C21_SequentialInOrder ==
    [][\A r \in Slots :
        StepOf(r, {"upload"}) =>
            /\ req'[r].files = req[r].files
            /\ req'[r].i \in {req[r].i, req[r].i + 1}
            /\ (req'[r].pc = "metadata") <=> (req'[r].i = req[r].i + 1)
            /\ req'[r].i = req[r].i + 1 =>
                    \/ /\ req[r].pc = "recognize"
                       /\ req'[r].cleanText = <<>> /\ req'[r].results = req[r].results
                    \/ /\ req[r].pc = "save"
                       /\ Len(req'[r].results) = Len(req[r].results) + 1
                       /\ req'[r].results[Len(req'[r].results)].image = req[r].files[req[r].i]
            /\ \A j, k \in 1..Len(req'[r].results) :
                    j < k => IndexOf(req[r].files, req'[r].results[j].image)
                                < IndexOf(req[r].files, req'[r].results[k].image)]_vars

\* a batch of two files was answered with both files saved, in upload order
C21_Witness ==
    \E r \in Slots :
        /\ IsUpload(r) /\ Answered(r, 200)
        /\ Len(req[r].files) = 2 /\ Len(req[r].results) = 2
        /\ req[r].results[1].image = req[r].files[1]
        /\ req[r].results[2].image = req[r].files[2]

\* C22: each file goes through preprocessing, recognition and persisting in
\* this order with no step skipped: the engine is called for a file only in
\* the step in which its preprocessing succeeds, never after a preprocessing
\* failure, and a store write for a file happens only after its OCR call
\* returned non-empty text.
C22_FileStepsInOrder ==
    [][\A r \in Slots :
        StepOf(r, {"upload", "regenerate"}) =>
            LET q == req[r]
                n == req'[r]
            IN  /\ q.pc = "metadata" => n.pc = "toFile" \/ (n.pc = "done" /\ n.status = 500)
                /\ q.pc = "toFile" => n.pc = "recognize" \/ (n.pc = "done" /\ n.status = 500)
                /\ q.pc = "recognize" => n.pc \in {"save", "metadata", "done"}
                /\ q.pc = "save" => n.pc \in {"metadata", "done"}
                /\ n.pc = "toFile" => q.pc = "metadata"
                /\ n.pc = "recognize" =>
                        /\ q.pc = "toFile"
                        /\ InputPath(q) \in DOMAIN images
                        /\ images[InputPath(q)] # "corrupt"
                        /\ q.outputPath \in DOMAIN temp'
                /\ n.pc = "save" => q.pc = "recognize" /\ Len(n.cleanText) > 0
                /\ db' # db => q.pc = "save" /\ Len(q.cleanText) > 0]_vars

\* a file was preprocessed and recognised with text and waits for its save
C22_Witness ==
    \E r \in Slots :
        /\ req[r].kind \in {"upload", "regenerate"}
        /\ req[r].pc = "save"
        /\ Len(req[r].cleanText) > 0
        /\ InputPath(req[r]) \in DOMAIN images

C24_EngineCalledOnce ==
    /\ call.invocations <= 1
    /\ (call.fn = "performOCR" /\ call.pc = "done") =>
            /\ call.invocations = 1
            /\ ~call.engineOk =>
                    /\ ~call.ok
                    /\ \E k \in 1..Len(call.message) : call.message[k] = call.engineMsg

\* a call of performOCR whose engine failed has ended
C24_Witness ==
    /\ call.fn = "performOCR" /\ call.pc = "done"
    /\ ~call.engineOk /\ ~call.ok
    /\ call.engineMsg \in EngineMessages

\* t is s without its leading and trailing whitespace
IsTrimOf(t, s) ==
    /\ t # <<>> => t[1] # " " /\ t[Len(t)] # " "
    /\ \E a \in 0..Len(s) :
            /\ a + Len(t) <= Len(s)
            /\ \A k \in 1..Len(t) : t[k] = s[a + k]
            /\ \A k \in 1..Len(s) : (k <= a \/ k > a + Len(t)) => s[k] = " "

\* C25: when the engine returns, performOCR returns the engine output with
\* leading and trailing whitespace removed, and an empty or whitespace-only
\* output is returned as the empty string, not turned into a failure.
C25_ReturnsTrimmedOutput ==
    (call.fn = "performOCR" /\ call.pc = "done" /\ call.engineOk) =>
        /\ call.ok
        /\ IsTrimOf(call.text, call.engineOut)

\* a call of performOCR whose engine printed whitespace only has returned
\* the empty string
C25_Witness ==
    /\ call.fn = "performOCR" /\ call.pc = "done" /\ call.engineOk
    /\ Len(call.engineOut) > 0
    /\ call.ok /\ call.text = <<>>

\* C26: a failure to remove a temp artifact is swallowed: the step in which
\* an fs.unlink of an artifact fails (the file is not there) changes no
\* request, response or record, and the call is not made again.
C26_UnlinkFailureSwallowed ==
    [][\A e \in unlinkQ \ unlinkQ' :
        (e[1] = "temp" /\ e[2] \notin DOMAIN temp)
        => /\ req' = req /\ db' = db
           /\ temp' = temp /\ images' = images
           /\ unlinkQ' = unlinkQ \ {e}]_vars

\* two removals of one artifact are pending, so that the second will fail,
\* while the request that called it waits for its save
C26_Witness ==
    \E e1, e2 \in unlinkQ :
        /\ e1 # e2 /\ e1[1] = "temp" /\ e2[1] = "temp" /\ e1[2] = e2[2]
        /\ req[e2[3]].pc = "save"

\* C27: preprocessImage upscales to exactly twice the source width if and
\* only if the width is known and strictly below 1000; a source of width
\* 1000 or more, or of unknown width, is not resized.
C27_UpscaleBelow1000 ==
    (call.fn = "preprocessImage" /\ call.pc \in {"toFile", "done"}) =>
        /\ call.resized <=> (call.width # NoWidth /\ call.width <= 999)
        /\ call.resized => call.outWidth = call.width + call.width
        /\ ~call.resized => call.outWidth = call.width

\* a source of width 999 was upscaled to 1998
C27_Witness ==
    /\ call.fn = "preprocessImage" /\ call.pc = "done"
    /\ call.width = 999 /\ call.resized /\ call.outWidth = 1998

\* no removal of file f of the images directory is pending in queue
NoRemovalPending(queue, f) == \A e \in queue : ~(e[1] = "images" /\ e[2] = f)

\* C28: when POST /image ends in its 500 path, the removal of every
\* uploaded file of the batch is started, and once these removals are
\* carried out none of the files of the batch is on disk.
C28_ErrorPathRemovesBatch ==
    [][\A r \in Slots :
        /\ (StepOf(r, {"upload"}) /\ req'[r].status = 500) =>
                \A k \in 1..Len(req[r].files) :
                    <<"images", req[r].files[k], r>> \in unlinkQ'
        /\ (req'[r].kind = "upload" /\ req'[r].pc = "done" /\ req'[r].status = 500) =>
                \A k \in 1..Len(req'[r].files) :
                    NoRemovalPending(unlinkQ', req'[r].files[k]) =>
                        req'[r].files[k] \notin DOMAIN images']_vars

\* a batch of two files was answered 500, its removals are carried out and
\* neither file is on disk
C28_Witness ==
    \E r \in Slots :
        /\ IsUpload(r) /\ Answered(r, 500)
        /\ Len(req[r].files) = 2
        /\ unlinkQ = {}
        /\ \A k \in 1..2 : req[r].files[k] \notin DOMAIN images

\* C29: after any sequence of requests, those answered with an error
\* included, every record of the store references a file that exists on
\* disk: when no request is in progress and no removal is pending, the
\* image of every record is in the images directory.
C29_RecordHasAsset ==
    ((\A r \in Slots : Vacant(r)) /\ unlinkQ = {}) =>
        \A id \in DOMAIN db : db[id].image \in DOMAIN images

\* C30: every record created by a POST /image request is reported in the
\* response of that request as an entry with saved: true: a record of the
\* store whose image is a file of an answered batch has its entry in the
\* 200 response of the batch.
C30_CreatedIsReported ==
    \A r \in Slots :
        (IsUpload(r) /\ req[r].pc = "done") =>
            \A id \in DOMAIN db :
                (\E k \in 1..Len(req[r].files) : req[r].files[k] = db[id].image) =>
                    /\ req[r].status = 200
                    /\ \E k \in 1..Len(req[r].results) :
                            /\ req[r].results[k].image = db[id].image
                            /\ req[r].results[k].saved

\* C31: once DELETE /image/:id has responded with success, the record with
\* that id never becomes visible again: an id the store has issued and no
\* longer holds is absent after every step, whatever write of a PATCH or of
\* a regeneration in flight comes after the delete.
C31_DeletedStaysDeleted ==
    [][\A id \in 1..nextId : id \notin DOMAIN db => id \notin DOMAIN db']_vars

\* a DELETE was answered 200 and a regeneration of the same record, which
\* had loaded it before, failed at its save: the record is not in the store
C31_Witness ==
    \E r, d \in Slots :
        /\ IsDelete(d) /\ Answered(d, 200)
        /\ IsRegen(r) /\ Answered(r, 500)
        /\ req[r].id = req[d].id /\ req[r].doc # NoDoc
        /\ req[r].details = DocumentNotFound
        /\ req[r].id \notin DOMAIN db

\* C32: in every reachable state the text of every stored record is
\* non-empty and neither begins nor ends with whitespace.
C32_TextsTrimmedNonEmpty ==
    \A id \in DOMAIN db :
        /\ Len(db[id].text) > 0
        /\ ~IsSpace(db[id].text[1])
        /\ ~IsSpace(db[id].text[Len(db[id].text)])

\* all three writers have written one record: the upload created it from
\* an engine output with blanks around it, a PATCH with a trailing blank
\* set it, and a regeneration that loaded the patched text set it again
C32_Witness ==
    \E r, p \in Slots :
        /\ IsRegen(r) /\ Answered(r, 200)
        /\ req[p].kind = "patch" /\ Answered(p, 200)
        /\ req[p].id = req[r].id /\ req[p].text = <<"b", " ">>
        /\ req[r].doc.text = <<"b">>
        /\ req[r].id \in DOMAIN db /\ db[req[r].id].text = <<"a">>
        /\ EngineOutput(images[db[req[r].id].image]) = <<" ", "a", " ">>

\* C33: when preprocessing or OCR throws in POST /image/:id/regenerate, the
\* request is answered 500 and the step changes no record: the record keeps
\* the text it had.
C33_RegenFailureKeepsRecord ==
    [][\A r \in Slots :
        (/\ IsRegen(r) /\ req[r].pc \in {"metadata", "toFile", "recognize"}
         /\ req'[r].details \in {SharpFailure, OcrFailure})
        => /\ req'[r].pc = "done" /\ req'[r].status = 500
           /\ db' = db]_vars

\* a regeneration whose OCR call threw was answered 500 and the record is
\* as the request loaded it
C33_Witness ==
    \E r \in Slots :
        /\ IsRegen(r) /\ Answered(r, 500)
        /\ req[r].details = OcrFailure
        /\ req[r].id \in DOMAIN db
        /\ req[r].doc # NoDoc /\ db[req[r].id] = req[r].doc

\* C34: DELETE /image/:id is all-or-nothing with respect to its response:
\* when it responds 500, the record is still in the store and its asset
\* file is still on disk.
C34_DeleteAllOrNothing ==
    [][\A r \in Slots :
        (/\ IsDelete(r) /\ req[r].pc = "findByIdAndDelete"
         /\ req'[r].pc = "done" /\ req'[r].status = 500)
        => /\ db' = db
           /\ req[r].id \in DOMAIN db => req[r].doc.image \in DOMAIN images']_vars

\* C35: DELETE /image/:id on an existing record whose asset file is already
\* missing is not an error: (the store answering) the handler goes on to
\* findByIdAndDelete without touching the disk, removes the record and
\* responds 200.
C35_DeleteWithoutAsset ==
    [][\A r \in Slots :
        /\ (/\ Arrives(r, {"delete"})
            /\ req'[r].id \in DOMAIN db
            /\ db[req'[r].id].image \notin DOMAIN images
            /\ req'[r].details # StoreFailure)
           => /\ req'[r].pc = "findByIdAndDelete"
              /\ images' = images /\ db' = db
        /\ (/\ StepOf(r, {"delete"})
            /\ req[r].doc.image \notin DOMAIN images
            /\ req'[r].details # StoreFailure)
           => /\ req'[r].pc = "done" /\ req'[r].status = 200
              /\ req[r].id \notin DOMAIN db']_vars

\* a DELETE of a record whose file was already gone when the request
\* arrived was answered 200, and the record is gone
C35_Witness ==
    \E r \in Slots :
        /\ IsDelete(r) /\ Answered(r, 200)
        /\ req[r].doc # NoDoc
        /\ req[r].id \notin DOMAIN db
        /\ \E u \in Slots :
                /\ IsUpload(u) /\ Answered(u, 500)
                /\ \E k \in 1..Len(req[u].files) : req[u].files[k] = req[r].doc.image

\* C36: when a POST /image request responds with success, every asset file
\* it uploaded that is on disk is referenced by a record: a file skipped
\* for its empty text does not stay behind without a record.
C36_NoOrphanAfterUpload ==
    [][\A r \in Slots :
        (StepOf(r, {"upload"}) /\ req'[r].pc = "done" /\ req'[r].status = 200)
        => \A k \in 1..Len(req[r].files) :
                req[r].files[k] \in DOMAIN images'
                => \E id \in DOMAIN db' : db'[id].image = req[r].files[k]]_vars

\* C37: every request to upload, search, update, regenerate or delete
\* produces exactly one response on every path, each awaited call
\* eventually returning or throwing: a request in progress is eventually
\* answered, a handler without a pending await has answered, and an
\* answered request takes no further step.
C37_ExactlyOneResponse ==
    /\ \A r \in Slots :
            (req[r].pc \notin {"idle", "done"}) ~> (req[r].pc = "done")
    /\ [][\A r \in Slots :
            /\ Arrives(r, {"upload", "get", "patch", "regenerate", "delete"})
               => \/ req'[r].pc = "done" /\ req'[r].status \in {200, 400, 404, 500}
                  \/ req'[r].pc \in {"metadata", "findByIdAndDelete"}
            /\ Arrives(r, {"get", "patch"}) => req'[r].pc = "done"
            /\ (req[r].pc = "done" /\ req'[r] # req[r]) => started' = started + 1]_vars

\* both slots hold an answered request that had awaited calls: an upload of
\* two files answered 200 and a DELETE answered 500
C37_Witness ==
    \E u, d \in Slots :
        /\ IsUpload(u) /\ Answered(u, 200) /\ Len(req[u].files) = 2
        /\ IsDelete(d) /\ Answered(d, 500) /\ req[d].doc # NoDoc

\* C38: GET /image and the legacy GET /ocr are read-only with respect to
\* persistent state: in a server that receives only these two requests, no
\* step (of a handler, or of a removal a handler has scheduled) creates,
\* changes or deletes a record or a file of the images directory, whatever
\* the query and the outcome; the removals they schedule are of temp files.
C38_GetsAreReadOnly ==
    [][/\ db' = db
       /\ images' = images
       /\ \A e \in unlinkQ' : e[1] = "temp"
       /\ \A r \in Slots : req'[r].kind \in {"none", "get", "ocr"}]_vars

\* a GET /ocr found its query in the text of an image, was answered 200,
\* and its temp file has been removed
C38_Witness ==
    \E r \in Slots :
        /\ req[r].kind = "ocr" /\ Answered(r, 200)
        /\ req[r].results[1].found = "true"
        /\ req[r].search = <<"a">>
        /\ req[r].outputPath \notin DOMAIN temp
        /\ req[r].files[1] \in DOMAIN images
        /\ unlinkQ = {}

====
